---- MODULE Spec2Model ----
(***************************************************************************)
(* A model of src/src/crystal_index/crystal.py: the Miller-index generator,*)
(* CrystalPlane (d-spacing, symmetry orbit, angle, zone axis) and Crystal  *)
(* (plane selection per lattice centering, d-spacing ratios, pair search). *)
(*                                                                         *)
(* Numbers.  The code computes in IEEE doubles; the model computes in      *)
(* exact real arithmetic on the quantities the doubles approximate:        *)
(*   - a d-spacing 1/sqrt(s) is carried as the integer s = h^2+k^2+l^2,    *)
(*   - a d-spacing ratio sqrt(s2/s1) is carried as the pair (s2, s1),      *)
(*   - a target ratio is a fraction <<p, q>>,                              *)
(*   - an angle threshold is a whole number of degrees whose cosine is     *)
(*     known (CosSign, CosSqNum, CosSqDen),                                *)
(* and every comparison is decided on squares by integer arithmetic.       *)
(* Rounding is therefore not modelled: a computed double that differs from *)
(* a bound by one unit in the last place is, in the model, equal to it.    *)
(***************************************************************************)
EXTENDS Integers, Sequences, FiniteSets

VARIABLES
    HKL_LIST,       \* Crystal.HKL_LIST, the class attribute shared by every Crystal
    crystal,        \* the Crystal object of this run (NoCrystal until constructed)
    ret,            \* the last call: its name, arguments, outcome and return value
    possible_pairs, \* find_pairs' local list of retained pairs, as last computed
    emitted,        \* the matches printed by the last find_pairs call, in order
    pc              \* where the caller is: "start", "built", "raised", "done"

vars == <<HKL_LIST, crystal, ret, possible_pairs, emitted, pc>>

----------------------------------------------------------------------------
(* Bounds of the model and constants of the program *)

\* largest argument given to get_possible_index_combinations by the caller
MaxGenIndex == 5
\* largest |component| of a plane built directly by the caller
MaxPlaneIndex == 3
\* largest order given to Crystal(...)
MaxOrder == 57
\* find_pairs and get_d_ratio are explored on lattices of at most this many planes
MaxPairPlanes == 8
\* largest |component| of the planes passed to angle_between and get_zone_axis
MaxPairIndex == 1

\* Crystal.HKL_LIST = get_possible_index_combinations(5)
LargestMillerIndex == 5

\* lower_limit = space_ratio * 0.8 and higher_limit = space_ratio * 1.2
LowerNum == 4
UpperNum == 6
LimitDen == 5

----------------------------------------------------------------------------
(* Python values *)

PyNone == [tag |-> "None"]
PyList(s) == [tag |-> "list", items |-> s]

IsNone(v) == v.tag = "None"

NoCrystal == [exists |-> FALSE]
NoCall == [op |-> "none", raised |-> "none"]

----------------------------------------------------------------------------
(* get_possible_index_combinations *)

\* a key that sums the indices, not their squares
sort_by_sum(t) == t[1] + t[2] + t[3]

\* sort_by_square_sum: sum(square(t))
sort_by_square_sum(t) == t[1] * t[1] + t[2] * t[2] + t[3] * t[3]

\* itertools.combinations_with_replacement(range(n), 3) emits the index
\* triples (h, k, l), h <= k <= l < n, in lexicographic order: for every h, for
\* every k from h, every l from k
CwrRow(h, k, n) == [i \in 1..(n - k) |-> <<h, k, k + i - 1>>]

RECURSIVE CwrRowsFrom(_, _, _)
CwrRowsFrom(h, k, n) ==
    IF k >= n THEN <<>> ELSE CwrRow(h, k, n) \o CwrRowsFrom(h, k + 1, n)

RECURSIVE CwrBlocksFrom(_, _)
CwrBlocksFrom(h, n) ==
    IF h >= n THEN <<>> ELSE CwrRowsFrom(h, h, n) \o CwrBlocksFrom(h + 1, n)

combinations_with_replacement(n) == CwrBlocksFrom(0, n)

\* a sort by key in which elements of equal key come out in reverse order
SortedTiesReversed(s) ==
    LET key == [i \in 1..Len(s) |-> sort_by_square_sum(s[i])]
        before(i) == {j \in 1..Len(s) : key[j] < key[i] \/ (key[j] = key[i] /\ j > i)}
        place == [i \in 1..Len(s) |-> Cardinality(before(i)) + 1]
    IN  [r \in 1..Len(s) |-> s[CHOOSE i \in 1..Len(s) : place[i] = r]]

\* sorted(seq, key = sort_by_square_sum): Python's sort is stable, so an
\* element is placed after every element of smaller key and after every
\* element of equal key that came before it in seq
sorted(s) ==
    LET key == [i \in 1..Len(s) |-> sort_by_square_sum(s[i])]
        before(i) == {j \in 1..Len(s) : key[j] < key[i] \/ (key[j] = key[i] /\ j < i)}
        place == [i \in 1..Len(s) |-> Cardinality(before(i)) + 1]
    IN  [r \in 1..Len(s) |-> s[CHOOSE i \in 1..Len(s) : place[i] = r]]

\* a slice s[1:] (empty for an empty list)
SliceFrom1(s) == IF s = <<>> THEN <<>> ELSE Tail(s)

get_possible_index_combinations(largest_miller_index) ==
    SliceFrom1(sorted(combinations_with_replacement(largest_miller_index + 1)))

----------------------------------------------------------------------------
(* CrystalSystem and CrystalPlane *)

CrystalSystem == {"FCC", "BCC", "SC"}

\* what the caller may pass as crystal_system: an enum member or a string
Selectors ==
    {[kind |-> "enum", val |-> v] : v \in CrystalSystem}
    \cup {[kind |-> "str", val |-> v] : v \in CrystalSystem \cup {"HCP", "fcc"}}

\* CrystalPlane(h, k, l): h, k, l and planenormal = array([h, k, l])
CrystalPlane(h, k, l) == <<h, k, l>>

Dot(a, b) == a[1] * b[1] + a[2] * b[2] + a[3] * b[3]

\* the cross product with its operands exchanged: p2 x p1
ZoneAxisReversed(p1, p2) ==
    << p2[2] * p1[3] - p2[3] * p1[2],
       p2[3] * p1[1] - p2[1] * p1[3],
       p2[1] * p1[2] - p2[2] * p1[1] >>

\* numpy.cross
get_zone_axis(p1, p2) ==
    << p1[2] * p2[3] - p1[3] * p2[2],
       p1[3] * p2[1] - p1[1] * p2[3],
       p1[1] * p2[2] - p1[2] * p2[1] >>

\* 1 / linalg.norm(planenormal): 1/sqrt(s), carried as s; a zero norm gives
\* numpy's inf (a RuntimeWarning, no exception)
get_d_spacing(p) ==
    IF Dot(p, p) = 0 THEN [kind |-> "inf"]
    ELSE [kind |-> "finite", inv_sq |-> Dot(p, p)]

\* itertools.permutations of a 3-list, as positions, in emission order
Permutations3 ==
    << <<1, 2, 3>>, <<1, 3, 2>>, <<2, 1, 3>>, <<2, 3, 1>>, <<3, 1, 2>>, <<3, 2, 1>> >>

\* itertools.product([1, -1], repeat=3): the rightmost factor varies fastest
SignOf(bit) == IF bit = 0 THEN 1 ELSE -1

sign_variants ==
    [j \in 1..8 |-> << SignOf((j - 1) \div 4),
                       SignOf(((j - 1) \div 2) % 2),
                       SignOf((j - 1) % 2) >>]

\* the orbit listed sign-major and permutation-minor
EquivalentPlanesSignMajor(p) ==
    [n \in 1..(Len(Permutations3) * Len(sign_variants)) |->
        LET j == ((n - 1) \div Len(Permutations3)) + 1
            i == ((n - 1) % Len(Permutations3)) + 1
        IN  CrystalPlane(p[Permutations3[i][1]] * sign_variants[j][1],
                         p[Permutations3[i][2]] * sign_variants[j][2],
                         p[Permutations3[i][3]] * sign_variants[j][3])]

\* (possible_miller_indices[:, newaxis, :] * sign_variants).reshape(-1, 3):
\* row 8*(i-1)+j is permutation i times sign pattern j
get_equivalent_planes(p) ==
    [n \in 1..(Len(Permutations3) * Len(sign_variants)) |->
        LET i == ((n - 1) \div Len(sign_variants)) + 1
            j == ((n - 1) % Len(sign_variants)) + 1
        IN  CrystalPlane(p[Permutations3[i][1]] * sign_variants[j][1],
                         p[Permutations3[i][2]] * sign_variants[j][2],
                         p[Permutations3[i][3]] * sign_variants[j][3])]

----------------------------------------------------------------------------
(* Crystal.get_planes *)

is_even(num) == num % 2 = 0

\* the state of a `for h, k, l in self.HKL_LIST` loop: the list so far and
\* whether `return hkl_list` was reached
LoopStart == [returned |-> FALSE, hkl_list |-> <<>>]

\* case CrystalSystem.SC, one iteration: the length is tested before the append
IterSC(st, t, order) ==
    IF Len(st.hkl_list) = order THEN [st EXCEPT !.returned = TRUE]
    ELSE [st EXCEPT !.hkl_list = Append(@, CrystalPlane(t[1], t[2], t[3]))]

\* a body-centred rule that forgets the third index
AcceptBCCTwoIndices(t) == is_even(t[1] + t[2])

AcceptBCC(t) == is_even(t[1] + t[2] + t[3])

\* case CrystalSystem.BCC, one iteration: the length is tested after the append
IterBCC(st, t, order) ==
    LET next == IF AcceptBCC(t)
                THEN Append(st.hkl_list, CrystalPlane(t[1], t[2], t[3]))
                ELSE st.hkl_list
    IN  [returned |-> Len(next) = order, hkl_list |-> next]

\* a face-centred rule that forgets the all-odd triples
AcceptFCCEvenOnly(t) == is_even(t[1]) /\ is_even(t[2]) /\ is_even(t[3])

AcceptFCC(t) ==
    \/ (is_even(t[1]) /\ is_even(t[2]) /\ is_even(t[3]))
    \/ (~is_even(t[1]) /\ ~is_even(t[2]) /\ ~is_even(t[3]))

\* case CrystalSystem.FCC, one iteration: the length is tested after the append
IterFCC(st, t, order) ==
    LET next == IF AcceptFCC(t)
                THEN Append(st.hkl_list, CrystalPlane(t[1], t[2], t[3]))
                ELSE st.hkl_list
    IN  [returned |-> Len(next) = order, hkl_list |-> next]

\* the loop body of the branch the match statement selects
Iter(crystal_system, st, t, order) ==
    CASE crystal_system = "SC" -> IterSC(st, t, order)
      [] crystal_system = "BCC" -> IterBCC(st, t, order)
      [] crystal_system = "FCC" -> IterFCC(st, t, order)

\* iteration i of the loop over hkl, if the loop is still running and has one
IterIfAny(crystal_system, st, hkl, i, order) ==
    IF st.returned \/ i > Len(hkl) THEN st ELSE Iter(crystal_system, st, hkl[i], order)

\* the loop from iteration i on, four iterations at a time
RECURSIVE ForLoop(_, _, _, _, _)
ForLoop(crystal_system, st, hkl, i, order) ==
    IF st.returned \/ i > Len(hkl) THEN st
    ELSE ForLoop(crystal_system,
                 IterIfAny(crystal_system,
                   IterIfAny(crystal_system,
                     IterIfAny(crystal_system,
                       IterIfAny(crystal_system, st, hkl, i, order),
                       hkl, i + 1, order),
                     hkl, i + 2, order),
                   hkl, i + 3, order),
                 hkl, i + 4, order)

\* a loop that reached `return hkl_list` returns the list; one that ran out of
\* candidates falls out of the match statement and of the function, and
\* Python returns None
LoopResult(st) == IF st.returned THEN PyList(st.hkl_list) ELSE PyNone

\* the match statement with the BCC and FCC branches exchanged
GetPlanesSwapped(hkl, crystal_system, order) ==
    LoopResult(ForLoop(CASE crystal_system = "SC" -> "SC"
                         [] crystal_system = "BCC" -> "FCC"
                         [] crystal_system = "FCC" -> "BCC",
                       LoopStart, hkl, 1, order))

\* Crystal.get_planes over the candidate list hkl
get_planes(hkl, crystal_system, order) ==
    LoopResult(ForLoop(crystal_system, LoopStart, hkl, 1, order))

----------------------------------------------------------------------------
(* Comparisons of the quantities the doubles stand for *)

\* a/b < c/d for a, c >= 0 and b, d > 0, by the integer parts and then, on
\* equal integer parts, by the reciprocals of the fractional parts
RECURSIVE LessFrac(_, _, _, _)
LessFrac(a, b, c, d) ==
    IF a \div b # c \div d THEN a \div b < c \div d
    ELSE IF c % d = 0 THEN FALSE
    ELSE IF a % b = 0 THEN TRUE
    ELSE LessFrac(d, c % d, b, a % b)

\* cosine of an angle threshold given in whole degrees: its sign and its square
\* (cos^2 66 = 0.165434..., no plane pair of the model lies within 0.00008 of it)
CosSign(angle) == IF angle <= 90 THEN 1 ELSE -1

CosSqNum(angle) ==
    CASE angle = 0 -> 1
      [] angle = 45 -> 1
      [] angle = 60 -> 1
      [] angle = 66 -> 16543
      [] angle = 90 -> 0
      [] angle = 120 -> 1
      [] angle = 180 -> 1

CosSqDen(angle) ==
    CASE angle = 0 -> 1
      [] angle = 45 -> 2
      [] angle = 60 -> 4
      [] angle = 66 -> 100000
      [] angle = 90 -> 1
      [] angle = 120 -> 4
      [] angle = 180 -> 1

\* CrystalPlane.angle_between: arccos(clip(dot(unit(p1), unit(p2)), -1, 1)) in
\* degrees, carried by its cosine dot/sqrt(norm_sq); nan when a normal is zero
angle_between(p1, p2) ==
    IF Dot(p1, p1) = 0 \/ Dot(p2, p2) = 0 THEN [kind |-> "nan"]
    ELSE [kind |-> "finite", dot |-> Dot(p1, p2), norm_sq |-> Dot(p1, p1) * Dot(p2, p2)]

\* the test with the comparison of line 294 made non-strict
AngleNotAbove(theta, angle) ==
    /\ theta.kind = "finite"
    /\ IF CosSign(angle) > 0
       THEN theta.dot >= 0
            /\ theta.dot * theta.dot * CosSqDen(angle) >= CosSqNum(angle) * theta.norm_sq
       ELSE theta.dot >= 0
            \/ theta.dot * theta.dot * CosSqDen(angle) <= CosSqNum(angle) * theta.norm_sq

\* theta < angle (line 294): the cosine of theta is above the cosine of angle;
\* every comparison with nan is false
AngleLess(theta, angle) ==
    /\ theta.kind = "finite"
    /\ IF CosSign(angle) > 0
       THEN theta.dot > 0
            /\ theta.dot * theta.dot * CosSqDen(angle) > CosSqNum(angle) * theta.norm_sq
       ELSE theta.dot >= 0
            \/ theta.dot * theta.dot * CosSqDen(angle) < CosSqNum(angle) * theta.norm_sq

\* pair[0].get_d_spacing() / pair[1].get_d_spacing() = sqrt(s2/s1), carried
\* by its square s2/s1
DivideSpacings(d1, d2) == [num_sq |-> d2.inv_sq, den_sq |-> d1.inv_sq]

\* the band with its bounds included
InBandClosed(space_ratio, ratio) ==
    /\ ~LessFrac(ratio.num_sq, ratio.den_sq,
                 (space_ratio[1] * LowerNum) * (space_ratio[1] * LowerNum),
                 (space_ratio[2] * LimitDen) * (space_ratio[2] * LimitDen))
    /\ ~LessFrac((space_ratio[1] * UpperNum) * (space_ratio[1] * UpperNum),
                 (space_ratio[2] * LimitDen) * (space_ratio[2] * LimitDen),
                 ratio.num_sq, ratio.den_sq)

\* lower_limit < ratio < higher_limit (line 288) for a positive space_ratio
\* p/q: lower_limit = 4p/5q and higher_limit = 6p/5q, compared on squares
InBand(space_ratio, ratio) ==
    /\ LessFrac((space_ratio[1] * LowerNum) * (space_ratio[1] * LowerNum),
                (space_ratio[2] * LimitDen) * (space_ratio[2] * LimitDen),
                ratio.num_sq, ratio.den_sq)
    /\ LessFrac(ratio.num_sq, ratio.den_sq,
                (space_ratio[1] * UpperNum) * (space_ratio[1] * UpperNum),
                (space_ratio[2] * LimitDen) * (space_ratio[2] * LimitDen))

----------------------------------------------------------------------------
(* Crystal.get_d_ratio and Crystal.find_pairs *)

\* itertools.combinations(planes, 2) emits the pairs of positions (i, j),
\* i < j, in lexicographic order: for every i, every j after i
CombinationsRow(planes, i) ==
    [n \in 1..(Len(planes) - i) |-> <<planes[i], planes[i + n]>>]

\* every ordered pair of distinct positions, (j, i) as well as (i, j)
RECURSIVE PermutationsFrom(_, _)
PermutationsFrom(planes, i) ==
    IF i > Len(planes) THEN <<>>
    ELSE [n \in 1..(i - 1) |-> <<planes[i], planes[n]>>]
         \o CombinationsRow(planes, i) \o PermutationsFrom(planes, i + 1)

PairsBothOrders(planes) == PermutationsFrom(planes, 1)

RECURSIVE CombinationsFrom(_, _)
CombinationsFrom(planes, i) ==
    IF i >= Len(planes) THEN <<>>
    ELSE CombinationsRow(planes, i) \o CombinationsFrom(planes, i + 1)

combinations(planes) == CombinationsFrom(planes, 1)

\* get_d_ratio over a list of planes: (ratio, pair) for every pair
get_d_ratio(planes) ==
    LET pairs == combinations(planes)
    IN  [n \in 1..Len(pairs) |->
            [ratio |-> DivideSpacings(get_d_spacing(pairs[n][1]),
                                      get_d_spacing(pairs[n][2])),
             pair |-> pairs[n]]]

\* the list comprehension of lines 287-289: the pairs of the entries whose
\* ratio is in the band, in the order of get_d_ratio
Retain(d_ratio, space_ratio) ==
    LET kept == SelectSeq(d_ratio, LAMBDA e : InBand(space_ratio, e.ratio))
    IN  [n \in 1..Len(kept) |-> kept[n].pair]

MatchResult(vector_1, vector_2) ==
    [vector_1 |-> vector_1, vector_2 |-> vector_2,
     zone_axis |-> get_zone_axis(vector_1, vector_2)]

\* the inner loop without its break: every qualifying orbit member is printed
RECURSIVE ScanOrbitNoBreak(_, _, _, _)
ScanOrbitNoBreak(vector_1, vector_2_lst, angle, n) ==
    IF n > Len(vector_2_lst) THEN <<>>
    ELSE (IF AngleLess(angle_between(vector_1, vector_2_lst[n]), angle)
          THEN <<MatchResult(vector_1, vector_2_lst[n])>> ELSE <<>>)
         \o ScanOrbitNoBreak(vector_1, vector_2_lst, angle, n + 1)

\* the inner loop of lines 293-300: what it prints for one pair
RECURSIVE ScanOrbit(_, _, _, _)
ScanOrbit(vector_1, vector_2_lst, angle, n) ==
    IF n > Len(vector_2_lst) THEN <<>>
    ELSE IF AngleLess(angle_between(vector_1, vector_2_lst[n]), angle)
         THEN <<MatchResult(vector_1, vector_2_lst[n])>>
         ELSE ScanOrbit(vector_1, vector_2_lst, angle, n + 1)

\* s[lo] \o ... \o s[hi]
RECURSIVE Concat(_, _, _)
Concat(s, lo, hi) ==
    IF lo > hi THEN <<>>
    ELSE IF lo = hi THEN s[lo]
    ELSE Concat(s, lo, (lo + hi) \div 2) \o Concat(s, (lo + hi) \div 2 + 1, hi)

\* the outer loop of lines 290-300: what it prints, pair after pair
ScanPairs(pairs, angle) ==
    LET printed == [n \in 1..Len(pairs) |->
                      ScanOrbit(pairs[n][1], get_equivalent_planes(pairs[n][2]), angle, 1)]
    IN  Concat(printed, 1, Len(pairs))

----------------------------------------------------------------------------
(* State machine *)

Init ==
    /\ HKL_LIST = get_possible_index_combinations(LargestMillerIndex)
    /\ crystal = NoCrystal
    /\ ret = NoCall
    /\ possible_pairs = <<>>
    /\ emitted = <<>>
    /\ pc = "start"

\* a call of get_possible_index_combinations by the caller
CallGenerator(m) ==
    /\ pc = "start"
    /\ ret' = [op |-> "get_possible_index_combinations", arg |-> m,
               raised |-> "none", value |-> get_possible_index_combinations(m)]
    /\ pc' = "done"
    /\ UNCHANGED <<HKL_LIST, crystal, possible_pairs, emitted>>

\* where the caller stands after a call on planes: a caller without a lattice
\* is done, a caller holding a lattice goes on with it
AfterPlaneCall == IF pc = "start" THEN "done" ELSE pc

\* CrystalPlane(h, k, l).get_equivalent_planes()
CallEquivalentPlanes(p) ==
    /\ pc \in {"start", "built"}
    /\ ret' = [op |-> "get_equivalent_planes", arg |-> p,
               raised |-> "none", value |-> get_equivalent_planes(p)]
    /\ pc' = AfterPlaneCall
    /\ UNCHANGED <<HKL_LIST, crystal, possible_pairs, emitted>>

\* CrystalPlane(h, k, l).get_d_spacing(): no statement of it raises
CallDSpacing(p) ==
    /\ pc \in {"start", "built"}
    /\ ret' = [op |-> "get_d_spacing", arg |-> p,
               raised |-> "none", value |-> get_d_spacing(p)]
    /\ pc' = AfterPlaneCall
    /\ UNCHANGED <<HKL_LIST, crystal, possible_pairs, emitted>>

\* CrystalPlane.angle_between(p1, p2): no statement of it raises
CallAngleBetween(p1, p2) ==
    /\ pc \in {"start", "built"}
    /\ ret' = [op |-> "angle_between", arg |-> <<p1, p2>>,
               raised |-> "none", value |-> angle_between(p1, p2)]
    /\ pc' = AfterPlaneCall
    /\ UNCHANGED <<HKL_LIST, crystal, possible_pairs, emitted>>

\* CrystalPlane.get_zone_axis(p1, p2)
CallZoneAxis(p1, p2) ==
    /\ pc \in {"start", "built"}
    /\ ret' = [op |-> "get_zone_axis", arg |-> <<p1, p2>>,
               raised |-> "none", value |-> get_zone_axis(p1, p2)]
    /\ pc' = AfterPlaneCall
    /\ UNCHANGED <<HKL_LIST, crystal, possible_pairs, emitted>>

\* a constructor that upper-cases a string selector before resolving it
ConstructAnyCase(sel, order) ==
    LET val == IF sel.val = "fcc" THEN "FCC" ELSE sel.val
    IN  /\ pc = "start"
        /\ IF sel.kind = "str" /\ val \notin CrystalSystem
           THEN /\ ret' = [op |-> "Crystal", arg |-> <<sel, order>>, raised |-> "ValueError"]
                /\ pc' = "raised"
                /\ UNCHANGED crystal
           ELSE /\ crystal' = [exists |-> TRUE, crystal_system |-> val, order |-> order,
                               planes |-> get_planes(HKL_LIST, val, order)]
                /\ ret' = [op |-> "Crystal", arg |-> <<sel, order>>, raised |-> "none"]
                /\ pc' = "built"
        /\ UNCHANGED <<HKL_LIST, possible_pairs, emitted>>

\* Crystal.__init__: the selector is resolved first (CrystalSystem(value)
\* raises ValueError for a string that is no member's value), then order and
\* planes are set
Construct(sel, order) ==
    /\ pc = "start"
    /\ IF sel.kind = "str" /\ sel.val \notin CrystalSystem
       THEN /\ ret' = [op |-> "Crystal", arg |-> <<sel, order>>, raised |-> "ValueError"]
            /\ pc' = "raised"
            /\ UNCHANGED crystal
       ELSE /\ crystal' = [exists |-> TRUE, crystal_system |-> sel.val, order |-> order,
                           planes |-> get_planes(HKL_LIST, sel.val, order)]
            /\ ret' = [op |-> "Crystal", arg |-> <<sel, order>>, raised |-> "none"]
            /\ pc' = "built"
    /\ UNCHANGED <<HKL_LIST, possible_pairs, emitted>>

\* the target ratios and angle thresholds the caller passes
TargetRatios == {<<5, 6>>, <<1, 1>>, <<5, 4>>, <<5, 2>>, <<2893, 1111>>}
AngleThresholds == {0, 45, 66, 90, 180}

\* find_pairs on a list of planes: its local possible_pairs and what it prints
find_pairs(planes, space_ratio, angle) ==
    LET kept == Retain(get_d_ratio(planes), space_ratio)
    IN  [possible_pairs |-> kept, printed |-> ScanPairs(kept, angle)]

PlaneCount(planes) == IF IsNone(planes) THEN 0 ELSE Len(planes.items)

\* get_d_ratio drawing its pairs by emptying self.planes
CallGetDRatioConsuming ==
    /\ pc = "built"
    /\ PlaneCount(crystal.planes) <= MaxPairPlanes
    /\ IF IsNone(crystal.planes)
       THEN /\ ret' = [op |-> "get_d_ratio", raised |-> "TypeError"]
            /\ UNCHANGED crystal
       ELSE /\ ret' = [op |-> "get_d_ratio", raised |-> "none",
                       value |-> get_d_ratio(crystal.planes.items)]
            /\ crystal' = [crystal EXCEPT !.planes = PyList(<<>>)]
    /\ UNCHANGED <<HKL_LIST, possible_pairs, emitted, pc>>

\* Crystal.get_d_ratio: combinations(None, 2) raises TypeError
CallGetDRatio ==
    /\ pc = "built"
    /\ PlaneCount(crystal.planes) <= MaxPairPlanes
    /\ IF IsNone(crystal.planes)
       THEN ret' = [op |-> "get_d_ratio", raised |-> "TypeError"]
       ELSE ret' = [op |-> "get_d_ratio", raised |-> "none",
                    value |-> get_d_ratio(crystal.planes.items)]
    /\ UNCHANGED <<HKL_LIST, crystal, possible_pairs, emitted, pc>>

\* Crystal.find_pairs: it returns None and prints its matches; on a lattice
\* whose planes are None its call of get_d_ratio raises TypeError
CallFindPairs(space_ratio, angle) ==
    /\ pc = "built"
    /\ PlaneCount(crystal.planes) <= MaxPairPlanes
    /\ IF IsNone(crystal.planes)
       THEN /\ ret' = [op |-> "find_pairs", arg |-> <<space_ratio, angle>>,
                       raised |-> "TypeError"]
            /\ possible_pairs' = <<>>
            /\ emitted' = <<>>
       ELSE LET found == find_pairs(crystal.planes.items, space_ratio, angle)
            IN  /\ ret' = [op |-> "find_pairs", arg |-> <<space_ratio, angle>>,
                           raised |-> "none", value |-> PyNone]
                /\ possible_pairs' = found.possible_pairs
                /\ emitted' = found.printed
    /\ UNCHANGED <<HKL_LIST, crystal, pc>>

PlaneTriples ==
    {<<h, k, l>> : h \in -MaxPlaneIndex..MaxPlaneIndex,
                   k \in -MaxPlaneIndex..MaxPlaneIndex,
                   l \in -MaxPlaneIndex..MaxPlaneIndex}

\* the planes the caller passes to the calls that take two
PairTriples ==
    {<<h, k, l>> : h \in -MaxPairIndex..MaxPairIndex,
                   k \in -MaxPairIndex..MaxPairIndex,
                   l \in -MaxPairIndex..MaxPairIndex}

Next ==
    \/ \E m \in 0..MaxGenIndex : CallGenerator(m)
    \/ \E p \in PlaneTriples : pc = "start" /\ CallEquivalentPlanes(p)
    \/ \E p \in PlaneTriples : pc = "start" /\ CallDSpacing(p)
    \/ \E p1 \in PairTriples, p2 \in PairTriples : pc = "start" /\ CallAngleBetween(p1, p2)
    \/ \E p1 \in PairTriples, p2 \in PairTriples : pc = "start" /\ CallZoneAxis(p1, p2)
    \/ \E sel \in Selectors, order \in 0..MaxOrder : Construct(sel, order)
    \/ CallGetDRatio
    \/ \E space_ratio \in TargetRatios, angle \in AngleThresholds :
          CallFindPairs(space_ratio, angle)

Spec == Init /\ [][Next]_vars

\* A caller that goes on calling the planes' methods on the planes of the
\* lattice it holds, between its get_d_ratio and find_pairs calls
SessionRatios == {<<5, 4>>, <<2893, 1111>>}
SessionAngles == {66, 90}

\* the planes of the lattice the caller holds
LatticePlanes ==
    IF pc = "built" /\ ~IsNone(crystal.planes)
          /\ Len(crystal.planes.items) <= MaxPairPlanes
    THEN {crystal.planes.items[i] : i \in 1..Len(crystal.planes.items)}
    ELSE {}

SessionNext ==
    \/ \E sel \in Selectors, order \in 0..MaxOrder : Construct(sel, order)
    \/ CallGetDRatio
    \/ \E space_ratio \in SessionRatios, angle \in SessionAngles :
          CallFindPairs(space_ratio, angle)
    \/ \E p \in LatticePlanes : CallDSpacing(p)
    \/ \E p \in LatticePlanes : CallEquivalentPlanes(p)
    \/ \E p1 \in LatticePlanes, p2 \in LatticePlanes : CallAngleBetween(p1, p2)
    \/ \E p1 \in LatticePlanes, p2 \in LatticePlanes : CallZoneAxis(p1, p2)

SessionSpec == Init /\ [][SessionNext]_vars

----------------------------------------------------------------------------
(* Properties of lattice construction *)

Built == pc = "built" /\ crystal.exists

SeqToSet(s) == {s[i] : i \in 1..Len(s)}

Prefix(s, n) == [i \in 1..n |-> s[i]]

Parities(t) == {t[1] % 2, t[2] % 2, t[3] % 2}
UniformParity(t) == Cardinality(Parities(t)) = 1
EvenSum(t) == (t[1] + t[2] + t[3]) % 2 = 0

\* C4: construction never leaves the lattice without a plane sequence, and
\* the sequence has at most `order` planes; when the candidates run out first
\* the lattice holds the shorter sequence collected so far.
C4_PlanesNeverNone ==
    Built =>
        /\ ~IsNone(crystal.planes)
        /\ Len(crystal.planes.items) <= crystal.order

\* C5: a SimpleCubic lattice of order 0..N (N candidates) holds exactly the
\* first `order` candidates, the case order = N included.
C5_SimpleCubicPrefix ==
    (Built /\ crystal.crystal_system = "SC" /\ crystal.order <= Len(HKL_LIST)) =>
        /\ ~IsNone(crystal.planes)
        /\ crystal.planes.items = Prefix(HKL_LIST, crystal.order)

\* C6: a FaceCentered lattice of order 1..M (M candidates of uniform parity)
\* holds exactly the first `order` candidates of uniform parity, in candidate
\* order.
C6_FaceCenteredPrefix ==
    (Built /\ crystal.crystal_system = "FCC" /\ crystal.order >= 1
           /\ crystal.order <= Len(SelectSeq(HKL_LIST, UniformParity))) =>
        /\ ~IsNone(crystal.planes)
        /\ crystal.planes.items
             = Prefix(SelectSeq(HKL_LIST, UniformParity), crystal.order)
        /\ \A t \in SeqToSet(crystal.planes.items) : UniformParity(t)

C6_Witness ==
    /\ Built /\ crystal.crystal_system = "FCC"
    /\ crystal.order = Len(SelectSeq(HKL_LIST, UniformParity))
    /\ ~IsNone(crystal.planes)
    /\ Len(crystal.planes.items) = crystal.order
    /\ crystal.planes.items[1] = <<1, 1, 1>>
    /\ crystal.planes.items[2] = <<0, 0, 2>>

\* C7: a BodyCentered lattice of order 1..M (M candidates of even index sum)
\* holds exactly the first `order` candidates of even index sum, in candidate
\* order.
C7_BodyCenteredPrefix ==
    (Built /\ crystal.crystal_system = "BCC" /\ crystal.order >= 1
           /\ crystal.order <= Len(SelectSeq(HKL_LIST, EvenSum))) =>
        /\ ~IsNone(crystal.planes)
        /\ crystal.planes.items = Prefix(SelectSeq(HKL_LIST, EvenSum), crystal.order)
        /\ \A t \in SeqToSet(crystal.planes.items) : EvenSum(t)

C7_Witness ==
    /\ Built /\ crystal.crystal_system = "BCC"
    /\ crystal.order = Len(SelectSeq(HKL_LIST, EvenSum))
    /\ ~IsNone(crystal.planes)
    /\ Len(crystal.planes.items) = crystal.order
    /\ crystal.planes.items[1] = <<0, 1, 1>>
    /\ crystal.planes.items[7] = <<1, 2, 3>>

SquareSums(s) == [i \in 1..Len(s) |-> s[i][1] * s[i][1] + s[i][2] * s[i][2] + s[i][3] * s[i][3]]

ExpectedSums(system) ==
    CASE system = "FCC" -> <<3, 4, 8, 11, 12, 16, 19, 20>>
      [] system = "SC" -> <<1, 2, 3, 4, 5, 6, 8, 9>>
      [] system = "BCC" -> <<2, 4, 6, 8, 10, 12, 14, 16>>

\* the i of the ratios sqrt(i/3) (FCC) and sqrt(i) (SC, BCC), and the divisor
ExpectedRatioSq(system) ==
    CASE system = "FCC" -> [i |-> <<3, 4, 8, 11, 12, 16, 19, 20>>, over |-> 3]
      [] system = "SC" -> [i |-> <<1, 2, 3, 4, 5, 6, 8, 9>>, over |-> 1]
      [] system = "BCC" -> [i |-> <<1, 2, 3, 4, 5, 6, 7, 8>>, over |-> 1]

\* C10: over the standard candidates an order-8 lattice has exactly 8 planes
\* whose squared-index sums are the expected sequence of its crystal system,
\* and the squared d-spacing ratio of the first plane to the n-th, which is
\* sum(n-th)/sum(first), is i/3 (FCC) or i (SC, BCC) for the n-th listed i.
C10_OrderEightSums ==
    (Built /\ crystal.order = 8) =>
        /\ ~IsNone(crystal.planes)
        /\ Len(crystal.planes.items) = 8
        /\ SquareSums(crystal.planes.items) = ExpectedSums(crystal.crystal_system)
        /\ \A n \in 1..8 :
              LET e == ExpectedRatioSq(crystal.crystal_system)
                  s == SquareSums(crystal.planes.items)
              IN  s[n] * e.over = e.i[n] * s[1]

C10_Witness ==
    /\ Built /\ crystal.order = 8 /\ crystal.crystal_system = "FCC"
    /\ ~IsNone(crystal.planes)
    /\ crystal.planes.items[8] = <<0, 2, 4>>

----------------------------------------------------------------------------
(* Properties of the pure functions *)

SignPatterns ==
    << <<1, 1, 1>>, <<1, 1, -1>>, <<1, -1, 1>>, <<1, -1, -1>>,
       <<-1, 1, 1>>, <<-1, 1, -1>>, <<-1, -1, 1>>, <<-1, -1, -1>> >>

PositionPermutations ==
    {f \in [1..3 -> 1..3] : \A a, b \in 1..3 : a # b => f[a] # f[b]}

\* position tuples in lexicographic order
LexLess(a, b) ==
    \/ a[1] < b[1]
    \/ (a[1] = b[1] /\ a[2] < b[2])
    \/ (a[1] = b[1] /\ a[2] = b[2] /\ a[3] < b[3])

\* the rank (1..6) of a permutation of positions among all of them
PermRank(f) == 1 + Cardinality({g \in PositionPermutations : LexLess(g, f)})

\* C8: the orbit of any triple has exactly 48 entries, one per (permutation,
\* sign pattern), permutation-major and sign-minor, the first being the triple.
C8_OrbitIs48 ==
    ret.op = "get_equivalent_planes" =>
        /\ Len(ret.value) = 48
        /\ ret.value[1] = ret.arg
        /\ \A f \in PositionPermutations : \A j \in 1..8 :
              ret.value[8 * (PermRank(f) - 1) + j]
                = << ret.arg[f[1]] * SignPatterns[j][1],
                     ret.arg[f[2]] * SignPatterns[j][2],
                     ret.arg[f[3]] * SignPatterns[j][3] >>

C8_Witness ==
    /\ ret.op = "get_equivalent_planes"
    /\ ret.arg = <<0, 1, 1>>
    /\ Len(ret.value) = 48
    /\ Cardinality(SeqToSet(ret.value)) = 12
    /\ ret.value[48] = <<-1, -1, 0>>

TriplesUpTo(m) ==
    {<<h, k, l>> : h \in 0..m, k \in 0..m, l \in 0..m} \ {<<0, 0, 0>>}

NonDecreasingTriples(m) == {t \in TriplesUpTo(m) : t[1] <= t[2] /\ t[2] <= t[3]}

\* C9: the generator returns every triple 0 <= h <= k <= l <= max_index but
\* (0,0,0), each once, C(max_index+3, 3) - 1 of them, by non-decreasing square
\* sum and, among equal sums, in lexicographic order.
C9_GeneratorSorted ==
    ret.op = "get_possible_index_combinations" =>
        LET m == ret.arg
            v == ret.value
        IN  /\ SeqToSet(v) = NonDecreasingTriples(m)
            /\ Len(v) = Cardinality(NonDecreasingTriples(m))
            /\ Len(v) = ((m + 1) * (m + 2) * (m + 3)) \div 6 - 1
            /\ \A a, b \in 1..Len(v) :
                  a < b =>
                     LET sa == v[a][1] * v[a][1] + v[a][2] * v[a][2] + v[a][3] * v[a][3]
                         sb == v[b][1] * v[b][1] + v[b][2] * v[b][2] + v[b][3] * v[b][3]
                     IN  sa < sb \/ (sa = sb /\ LexLess(v[a], v[b]))

C9_Witness ==
    /\ ret.op = "get_possible_index_combinations"
    /\ ret.arg = 2
    /\ ret.value = << <<0, 0, 1>>, <<0, 1, 1>>, <<1, 1, 1>>, <<0, 0, 2>>, <<0, 1, 2>>,
                      <<1, 1, 2>>, <<0, 2, 2>>, <<1, 2, 2>>, <<2, 2, 2>> >>

----------------------------------------------------------------------------
(* Properties of get_d_ratio and find_pairs *)

Abs(x) == IF x < 0 THEN -x ELSE x
Min2(a, b) == IF a < b THEN a ELSE b
Max2(a, b) == IF a < b THEN b ELSE a

\* the member 0 <= h <= k <= l of the orbit of a plane
Canonical(p) ==
    LET lo == Min2(Abs(p[1]), Min2(Abs(p[2]), Abs(p[3])))
        hi == Max2(Abs(p[1]), Max2(Abs(p[2]), Abs(p[3])))
    IN  <<lo, Abs(p[1]) + Abs(p[2]) + Abs(p[3]) - lo - hi, hi>>

FoundPairs == pc = "built" /\ ret.op = "find_pairs" /\ ret.raised = "none"

Planes == crystal.planes.items

\* the positions at which a plane stands in the lattice's sequence
Positions(p) == {i \in 1..Len(Planes) : Planes[i] = p}

\* pair `a` comes before pair `b` in the order of combinations()
PairBefore(a, b) ==
    \E i \in Positions(a[1]), j \in Positions(a[2]),
       k \in Positions(b[1]), l \in Positions(b[2]) :
          i < k \/ (i = k /\ j < l)

\* the lattice pair a printed match belongs to
PairOfMatch(m) == <<m.vector_1, Canonical(m.vector_2)>>

\* the angle between two non-zero planes is strictly below a threshold of the
\* model, stated on the dot product d and n = |p1|^2 |p2|^2 (cos = d/sqrt(n))
StrictlyBelow(p1, p2, angle) ==
    LET d == p1[1] * p2[1] + p1[2] * p2[2] + p1[3] * p2[3]
        n == (p1[1] * p1[1] + p1[2] * p1[2] + p1[3] * p1[3])
             * (p2[1] * p2[1] + p2[2] * p2[2] + p2[3] * p2[3])
    IN  CASE angle = 0 -> FALSE
          [] angle = 45 -> d > 0 /\ 2 * d * d > n
          [] angle = 66 -> d > 0 /\ 100000 * d * d > 16543 * n
          [] angle = 90 -> d > 0
          [] angle = 180 -> ~(d < 0 /\ d * d = n)

AtThreshold(p1, p2, angle) ==
    LET d == p1[1] * p2[1] + p1[2] * p2[2] + p1[3] * p2[3]
        n == (p1[1] * p1[1] + p1[2] * p1[2] + p1[3] * p1[3])
             * (p2[1] * p2[1] + p2[2] * p2[2] + p2[3] * p2[3])
    IN  CASE angle = 0 -> d > 0 /\ d * d = n
          [] angle = 45 -> d > 0 /\ 2 * d * d = n
          [] angle = 66 -> FALSE
          [] angle = 90 -> d = 0
          [] angle = 180 -> d < 0 /\ d * d = n

\* the orbit positions of `second` that qualify against `first`
Qualifying(first, second, angle) ==
    {k \in 1..48 : StrictlyBelow(first, get_equivalent_planes(second)[k], angle)}

SetMin(S) == CHOOSE x \in S : \A y \in S : x <= y

\* the printed matches of one retained pair, as positions in the output
MatchesOf(pair) == {i \in 1..Len(emitted) : PairOfMatch(emitted[i]) = pair}

\* C1: for every retained pair the match printed is the first orbit member, in
\* enumeration order, whose angle to the first plane is strictly below the
\* threshold; at most one match is printed per pair, and none when no orbit
\* member qualifies (a member at exactly the threshold does not qualify).
C1_FirstQualifyingOnly ==
    FoundPairs =>
        \A n \in 1..Len(possible_pairs) :
            LET pair == possible_pairs[n]
                Q == Qualifying(pair[1], pair[2], ret.arg[2])
                ms == MatchesOf(pair)
            IN  /\ Cardinality(ms) <= 1
                /\ Q = {} => ms = {}
                /\ Q # {} =>
                     \E i \in ms :
                        /\ emitted[i].vector_1 = pair[1]
                        /\ emitted[i].vector_2
                             = get_equivalent_planes(pair[2])[SetMin(Q)]
                        /\ emitted[i].zone_axis
                             = get_zone_axis(pair[1], emitted[i].vector_2)

\* a call in which one retained pair has several qualifying orbit members and
\* one printed match, and another retained pair has an orbit member exactly at
\* the threshold, none below it, and no printed match
C1_Witness ==
    /\ FoundPairs
    /\ \E n \in 1..Len(possible_pairs) :
          /\ Cardinality(Qualifying(possible_pairs[n][1], possible_pairs[n][2],
                                    ret.arg[2])) > 1
          /\ Cardinality(MatchesOf(possible_pairs[n])) = 1
    /\ \E n \in 1..Len(possible_pairs) :
          /\ Qualifying(possible_pairs[n][1], possible_pairs[n][2], ret.arg[2]) = {}
          /\ MatchesOf(possible_pairs[n]) = {}
          /\ \E k \in 1..48 :
                AtThreshold(possible_pairs[n][1],
                            get_equivalent_planes(possible_pairs[n][2])[k], ret.arg[2])

RECURSIVE GCD(_, _)
GCD(a, b) == IF b = 0 THEN a ELSE GCD(b, a % b)

\* target*0.8 < sqrt(s2/s1) < target*1.2 for the target p/q in lowest terms,
\* on squares: (4p)^2 s1 < (5q)^2 s2 and (5q)^2 s2 < (6p)^2 s1
StrictlyInBand(target, first, second) ==
    LET g == GCD(target[1], target[2])
        p == target[1] \div g
        q == target[2] \div g
        s1 == first[1] * first[1] + first[2] * first[2] + first[3] * first[3]
        s2 == second[1] * second[1] + second[2] * second[2] + second[3] * second[3]
    IN  /\ 16 * p * p * s1 < 25 * q * q * s2
        /\ 25 * q * q * s2 < 36 * p * p * s1

OnBandEdge(target, first, second) ==
    LET g == GCD(target[1], target[2])
        p == target[1] \div g
        q == target[2] \div g
        s1 == first[1] * first[1] + first[2] * first[2] + first[3] * first[3]
        s2 == second[1] * second[1] + second[2] * second[2] + second[3] * second[3]
    IN  \/ 16 * p * p * s1 = 25 * q * q * s2
        \/ 25 * q * q * s2 = 36 * p * p * s1

\* C2: find_pairs retains exactly the pairs (planes[i], planes[j]), i < j,
\* whose d-spacing ratio is strictly inside the band, each once, and prints
\* matches for retained pairs only.
C2_RetainedIffInBand ==
    FoundPairs =>
        /\ SeqToSet(possible_pairs)
             = {<<Planes[i], Planes[j]>> : <<i, j>> \in
                   {ij \in (1..Len(Planes)) \X (1..Len(Planes)) :
                       /\ ij[1] < ij[2]
                       /\ StrictlyInBand(ret.arg[1], Planes[ij[1]], Planes[ij[2]])}}
        /\ Cardinality(SeqToSet(possible_pairs)) = Len(possible_pairs)
        /\ \A i \in 1..Len(emitted) : PairOfMatch(emitted[i]) \in SeqToSet(possible_pairs)

\* a call that retains some pairs, rejects a pair on the lower edge of the
\* band and a pair on its upper edge, and prints a match
C2_Witness ==
    /\ FoundPairs
    /\ possible_pairs # <<>>
    /\ emitted # <<>>
    /\ \E i, j \in 1..Len(Planes) :
          /\ i < j
          /\ OnBandEdge(ret.arg[1], Planes[i], Planes[j])
          /\ <<Planes[i], Planes[j]>> \notin SeqToSet(possible_pairs)
          /\ Planes[j][1] * Planes[j][1] + Planes[j][2] * Planes[j][2]
               + Planes[j][3] * Planes[j][3] = 4
    /\ \E i, j \in 1..Len(Planes) :
          /\ i < j
          /\ OnBandEdge(ret.arg[1], Planes[i], Planes[j])
          /\ <<Planes[i], Planes[j]>> \notin SeqToSet(possible_pairs)
          /\ Planes[j][1] * Planes[j][1] + Planes[j][2] * Planes[j][2]
               + Planes[j][3] * Planes[j][3] = 9

\* C3: get_d_ratio lists exactly the pairs (planes[i], planes[j]) with i < j,
\* each once and in lexicographic order of (i, j); find_pairs retains and
\* prints in that same order.
C3_CombinationsOrder ==
    /\ (pc = "built" /\ ret.op = "get_d_ratio" /\ ret.raised = "none") =>
          /\ Len(ret.value) = (Len(Planes) * (Len(Planes) - 1)) \div 2
          /\ \A i, j \in 1..Len(Planes) :
                i < j => \E n \in 1..Len(ret.value) :
                            ret.value[n].pair = <<Planes[i], Planes[j]>>
          /\ \A n \in 1..Len(ret.value) : ret.value[n].pair[1] # ret.value[n].pair[2]
          /\ \A a, b \in 1..Len(ret.value) :
                a < b => PairBefore(ret.value[a].pair, ret.value[b].pair)
    /\ FoundPairs =>
          /\ \A a, b \in 1..Len(possible_pairs) :
                a < b => PairBefore(possible_pairs[a], possible_pairs[b])
          /\ \A a, b \in 1..Len(emitted) :
                a < b => PairBefore(PairOfMatch(emitted[a]), PairOfMatch(emitted[b]))

\* a call that printed at least three matches, for pairs with different first
\* planes and for pairs with the same first plane
C3_Witness ==
    /\ FoundPairs
    /\ Len(emitted) >= 3
    /\ \E a, b \in 1..Len(emitted) :
          a < b /\ emitted[a].vector_1 # emitted[b].vector_1
    /\ \E a, b \in 1..Len(emitted) :
          a < b /\ emitted[a].vector_1 = emitted[b].vector_1

----------------------------------------------------------------------------
(* Properties of the call made by main() *)

\* find_pairs(28.93 / 11.11, 66) has returned on Crystal("FCC", 8)
MainRun ==
    /\ FoundPairs
    /\ crystal.crystal_system = "FCC"
    /\ crystal.order = 8
    /\ ret.arg = << <<2893, 1111>>, 66 >>

\* what that call prints
MainMatches ==
    << [vector_1 |-> <<1, 1, 1>>, vector_2 |-> <<0, 0, 4>>, zone_axis |-> <<4, -4, 0>>],
       [vector_1 |-> <<1, 1, 1>>, vector_2 |-> <<1, 3, 3>>, zone_axis |-> <<0, -2, 2>>],
       [vector_1 |-> <<1, 1, 1>>, vector_2 |-> <<0, 2, 4>>, zone_axis |-> <<2, -4, 2>>],
       [vector_1 |-> <<0, 0, 2>>, vector_2 |-> <<1, 3, 3>>, zone_axis |-> <<-6, 2, 0>>],
       [vector_1 |-> <<0, 0, 2>>, vector_2 |-> <<0, 2, 4>>, zone_axis |-> <<-4, 0, 0>>] >>

\* C11: find_pairs on the face-centred lattice of order 8 with target ratio
\* 28.93/11.11 and threshold 66 degrees prints a non-empty sequence of
\* matches, and every run with these inputs, whatever calls came before it,
\* prints the same matches (first plane, candidate plane, zone axis) in the
\* same order.
C11_MainRunStable ==
    MainRun => emitted # <<>> /\ emitted = MainMatches

\* the call of main() has been made and has printed five matches
C11_Witness ==
    /\ MainRun
    /\ Len(emitted) = 5
    /\ Len(possible_pairs) >= 5

----------------------------------------------------------------------------
(* Properties of calls on the degenerate plane *)

ZeroPlane == <<0, 0, 0>>

\* C12: get_d_spacing of the plane (0, 0, 0), and angle_between with that
\* plane as an operand, end in an error raised to the caller; no number,
\* infinity or not-a-number is returned.
C12_ZeroPlaneRaises ==
    /\ (ret.op = "get_d_spacing" /\ ret.arg = ZeroPlane) => ret.raised # "none"
    /\ (ret.op = "angle_between" /\ ZeroPlane \in {ret.arg[1], ret.arg[2]}) =>
          ret.raised # "none"

----------------------------------------------------------------------------
(* Properties of the constructor's selector *)

Recognized(sel) == sel.val \in {"FCC", "BCC", "SC"}

\* C13: a constructor call whose selector is none of FCC, BCC, SC ends in an
\* error, and then there is no lattice and no plane sequence; a call with a
\* recognized string or enum member does not raise and yields the lattice of
\* that system.
C13_SelectorChecked ==
    /\ ret.op = "Crystal" =>
          /\ ret.raised # "none" <=> ~Recognized(ret.arg[1])
          /\ ret.raised # "none" => pc = "raised" /\ ~crystal.exists
          /\ ret.raised = "none" =>
                /\ pc = "built"
                /\ crystal.exists
                /\ crystal.crystal_system = ret.arg[1].val
                /\ crystal.order = ret.arg[2]
    /\ pc = "raised" => ret.op = "Crystal" /\ ~crystal.exists
    /\ ~crystal.exists => pc # "built"

\* the constructor has refused the selector "HCP" and left no lattice
C13_Witness ==
    /\ pc = "raised"
    /\ ret.op = "Crystal"
    /\ ret.arg[1] = [kind |-> "str", val |-> "HCP"]
    /\ ret.raised = "ValueError"
    /\ crystal = NoCrystal

----------------------------------------------------------------------------
(* Properties of the calls made on a constructed lattice *)

\* C14: once the lattice is constructed, no call of get_d_ratio, find_pairs,
\* get_d_spacing, get_equivalent_planes, angle_between or get_zone_axis
\* changes its crystal system, its order or its plane sequence, and none
\* changes the shared candidate list HKL_LIST.
C14_LatticeFrame ==
    [][Built => crystal' = crystal /\ HKL_LIST' = HKL_LIST]_vars

\* get_zone_axis has returned on two planes of a lattice on which find_pairs
\* printed matches before, and the lattice is still the one constructed
C14_Witness ==
    /\ Built
    /\ ret.op = "get_zone_axis"
    /\ emitted # <<>>
    /\ HKL_LIST = get_possible_index_combinations(LargestMillerIndex)
    /\ crystal.planes = get_planes(HKL_LIST, crystal.crystal_system, crystal.order)

----------------------------------------------------------------------------
(* Properties of the zone axes find_pairs prints *)

\* C15: every match printed by find_pairs has a zone axis other than
\* (0, 0, 0): the candidate plane of a match is never parallel or
\* anti-parallel to the first plane.
C15_ZoneAxisNonZero ==
    FoundPairs =>
        \A i \in 1..Len(emitted) :
            /\ emitted[i].zone_axis # <<0, 0, 0>>
            /\ get_zone_axis(emitted[i].vector_1, emitted[i].vector_2) # <<0, 0, 0>>

----------------------------------------------------------------------------
(* Properties of the ratios of a lattice's pairs *)

SqSum(p) == p[1] * p[1] + p[2] * p[2] + p[3] * p[3]

\* the upper limit target * 1.2 of the band is at most 1
BandBelowOne(target) == 6 * target[1] <= 5 * target[2]

\* the test of find_pairs' comprehension on the pair (first, second)
WouldRetain(target, first, second) ==
    InBand(target, DivideSpacings(get_d_spacing(first), get_d_spacing(second)))

\* C16: in every lattice built from the generated candidate list, every pair
\* (first, second) that get_d_ratio enumerates has h^2+k^2+l^2 of first at most
\* that of second, so every ratio d(first)/d(second) is at least 1; and
\* find_pairs retains no pair and prints no match when target_ratio * 1.2 <= 1,
\* whatever the angle threshold.
C16_RatiosAtLeastOne ==
    /\ (Built /\ ~IsNone(crystal.planes)) =>
          \A i, j \in 1..Len(Planes) :
             i < j =>
                /\ SqSum(Planes[i]) <= SqSum(Planes[j])
                /\ \A target \in {t \in TargetRatios : BandBelowOne(t)} :
                      ~WouldRetain(target, Planes[i], Planes[j])
    /\ (pc = "built" /\ ret.op = "get_d_ratio" /\ ret.raised = "none") =>
          \A n \in 1..Len(ret.value) :
             /\ SqSum(ret.value[n].pair[1]) <= SqSum(ret.value[n].pair[2])
             /\ ret.value[n].ratio.num_sq >= ret.value[n].ratio.den_sq
             /\ ret.value[n].ratio.den_sq > 0
    /\ (FoundPairs /\ BandBelowOne(ret.arg[1])) =>
          possible_pairs = <<>> /\ emitted = <<>>

\* find_pairs has returned, with a band whose upper limit is 1 and the
\* threshold of 180 degrees, on a lattice of several planes, and printed
\* nothing
C16_Witness ==
    /\ FoundPairs
    /\ BandBelowOne(ret.arg[1])
    /\ ret.arg[2] = 180
    /\ Len(Planes) >= 8
    /\ emitted = <<>>

====
